---- MODULE Spec2Model ----
(***************************************************************************)
(* Model of the Dubins-path planner of gdsfactory/routing/route_dubin.py.  *)
(*                                                                         *)
(* Numbers.  The program computes in binary floating point.  Here every    *)
(* real quantity (coordinate, radius, angle in radians, sine, length) is   *)
(* a fixed-point number: the integer v stands for v / Scale.  Products     *)
(* and quotients are rounded to the nearest multiple of 1 / Scale, the     *)
(* sign treated symmetrically as IEEE rounding does.  The library          *)
(* functions (sin, cos, atan2, acos, sqrt) are computed by range           *)
(* reduction and series; like their floating point originals they are      *)
(* exact at 0 and carry a rounding error elsewhere.  The constants pi/2,   *)
(* pi and 2 pi are exact multiples of pi/4, as they are in binary          *)
(* floating point.                                                         *)
(***************************************************************************)
EXTENDS Integers, Sequences, FiniteSets, TLC

(***************************************************************************)
(* Bounds of the model.                                                    *)
(***************************************************************************)
\* end coordinates range over -MaxCoord..MaxCoord (and FarCoord on the x axis)
MaxCoord == 2
\* a far end point on the x axis: the "D large relative to r" example
FarCoord == 10
\* radii range over -1..MaxRadius (the code accepts any number)
MaxRadius == 2
\* headings are the multiples of 360/NumHeadings degrees (and 0, 90, 180)
NumHeadings == 4
\* the floating-point arguments of mod_to_pi have exponents -MaxFlExp..0
MaxFlExp == 16
\* the solutions given to gds_solution have at most MaxSegments segments
MaxSegments == 3

(***************************************************************************)
(* Fixed-point arithmetic.  The arithmetic is written as functions over    *)
(* Int applied by operators of the same name, so that an argument is       *)
(* evaluated once, as a Python argument is.                                *)
(***************************************************************************)
Scale == 10 * 10 * 10

AbsF[x \in Int] == IF x < 0 THEN -x ELSE x

\* abs(x)
Abs(x) == AbsF[x]

\* n / m rounded to the nearest integer, n >= 0, m > 0
RDivPos[n \in Int, m \in Int] == (2 * n + m) \div (2 * m)

\* a / b rounded to the nearest integer, halves away from zero (b # 0)
RDivF[a \in Int, b \in Int] ==
  IF (a >= 0) = (b > 0) THEN RDivPos[AbsF[a], AbsF[b]]
                        ELSE -RDivPos[AbsF[a], AbsF[b]]

RDiv(a, b) == RDivF[a, b]

\* float product a * b
MulFix(a, b) == RDivF[a * b, Scale]

\* float quotient a / b (b # 0)
DivFix(a, b) == RDivF[a * Scale, b]

\* the largest r in lo..hi with r * r <= n, by bisection (0 if none)
IsqrtFloor[n \in Int, lo \in Int, hi \in Int] ==
  IF lo >= hi THEN lo
  ELSE IF ((lo + hi + 1) \div 2) * ((lo + hi + 1) \div 2) <= n
       THEN IsqrtFloor[n, (lo + hi + 1) \div 2, hi]
       ELSE IsqrtFloor[n, lo, ((lo + hi + 1) \div 2) - 1]

SqrtRound[n \in Int, r \in Int] == IF n - r * r > r THEN r + 1 ELSE r

\* m.sqrt(x), x >= 0: the nearest fixed-point number to the square root
SqrtF[x \in Int] == SqrtRound[x * Scale, IsqrtFloor[x * Scale, 0, 46340]]

Sqrt(x) == SqrtF[x]

\* m.pi and its multiples
QuarterPi == (785398 * Scale) \div 1000000
HalfPi == 2 * QuarterPi
PI == 4 * QuarterPi
TwoPi == 8 * QuarterPi

\* series of sin on [0, pi/4]: x - x^3/6 + x^5/120, x2 = x * x
SinSeries[x \in Int, x2 \in Int] ==
  x - RDivF[MulFix(x2, x - RDivF[MulFix(x2, x), 20]), 6]

SinT[x \in Int] == SinSeries[x, MulFix(x, x)]

\* series of cos on [0, pi/4]: 1 - x^2/2 + x^4/24 - x^6/720, x2 = x * x
CosSeries[x2 \in Int] ==
  Scale - RDivF[MulFix(x2, Scale - RDivF[MulFix(x2, Scale - RDivF[x2, 30]),
                                         12]), 2]

CosT[x \in Int] == CosSeries[MulFix(x, x)]

\* sin and cos on the first quadrant [0, pi/2)
SinQ[f \in Int] == IF f <= QuarterPi THEN SinT[f] ELSE CosT[HalfPi - f]
CosQ[f \in Int] == IF f <= QuarterPi THEN CosT[f] ELSE SinT[HalfPi - f]

\* sin and cos of the angle q * pi/2 + f, q in 0..3, f in [0, pi/2)
SinQuadrant[q \in Int, f \in Int] ==
  CASE q = 0 -> SinQ[f]
    [] q = 1 -> CosQ[f]
    [] q = 2 -> -SinQ[f]
    [] OTHER -> -CosQ[f]

CosQuadrant[q \in Int, f \in Int] ==
  CASE q = 0 -> CosQ[f]
    [] q = 1 -> -SinQ[f]
    [] q = 2 -> -CosQ[f]
    [] OTHER -> SinQ[f]

\* m.sin(a)
SinF[a \in Int] == SinQuadrant[(a % TwoPi) \div HalfPi, (a % TwoPi) % HalfPi]

Sin(a) == SinF[a]

\* m.cos(a)
CosF[a \in Int] == CosQuadrant[(a % TwoPi) \div HalfPi, (a % TwoPi) % HalfPi]

Cos(a) == CosF[a]

\* series of atan on [0, tan(pi/8)]: z - z^3/3 + z^5/5 - z^7/7, z2 = z * z
AtanSeries[z \in Int, z2 \in Int] ==
  z - MulFix(z, MulFix(z2, RDivF[Scale, 3]
                           - MulFix(z2, RDivF[Scale, 5] - RDivF[z2, 7])))

AtanT[z \in Int] == AtanSeries[z, MulFix(z, z)]

\* atan on [0, 1]
AtanUnit[z \in Int] ==
  IF 1000 * z <= 414 * Scale THEN AtanT[z]
  ELSE QuarterPi - AtanT[DivFix(Scale - z, Scale + z)]

\* atan2(ay, ax) in the first quadrant, ay >= 0, ax >= 0
AtanPos[ay \in Int, ax \in Int] ==
  IF ay = 0 THEN 0
  ELSE IF ax = 0 THEN HalfPi
  ELSE IF ay <= ax THEN AtanUnit[DivFix(ay, ax)]
  ELSE HalfPi - AtanUnit[DivFix(ax, ay)]

\* the quadrant of (x, y) applied to a = atan2(|y|, |x|)
AtanSigned[y \in Int, x \in Int, a \in Int] ==
  IF x >= 0 THEN (IF y >= 0 THEN a ELSE -a)
  ELSE (IF y >= 0 THEN PI - a ELSE a - PI)

\* m.atan2(y, x); atan2(0, 0) = 0 (both zeros positive)
Atan2F[y \in Int, x \in Int] == AtanSigned[y, x, AtanPos[AbsF[y], AbsF[x]]]

Atan2(y, x) == Atan2F[y, x]

\* m.acos(x), -1 <= x <= 1
AcosF[x \in Int] == Atan2F[SqrtF[Scale - MulFix(x, x)], x]

Acos(x) == AcosF[x]

\* the degrees taken for radians
RadiansUnconverted(deg) == deg * Scale

\* m.radians(deg)
Radians(deg) == RDivF[deg * PI, 180]

(***************************************************************************)
(* Helpers of route_dubin.py.                                              *)
(***************************************************************************)
\* mod_to_pi(angle): angle - 2.0 * m.pi * m.floor(angle / 2.0 / m.pi)
ModToPiF[angle \in Int] == angle - TwoPi * (angle \div TwoPi)

\* the angle left as it is
mod_to_pi_unreduced(angle) == angle

\* the angle reduced to (0, 2 pi] instead of [0, 2 pi)
mod_to_pi_upper(angle) == angle - TwoPi * ((angle - 1) \div TwoPi)

mod_to_pi(angle) == ModToPiF[angle]

(***************************************************************************)
(* mod_to_pi in floating point.  The fixed-point mod_to_pi above is exact: *)
(* it cannot show what the rounding of the quotient and of the subtraction *)
(* does.  Here the same expression is evaluated in a binary floating-point *)
(* format of 8 significant bits: a float is <<m, e>>, standing for         *)
(* m * 2^e, with 128 <= |m| <= 255, or <<0, 0>>; every operation rounds    *)
(* its exact result to the nearest float, ties to even, as IEEE arithmetic *)
(* does with 53 bits.                                                      *)
(***************************************************************************)
\* the mantissas are below FlLimit and, unless 0, at least FlLimit / 2
FlLimit == 2 * 128

Pow2[k \in Nat] == IF k = 0 THEN 1 ELSE 2 * Pow2[k - 1]

\* n / dn rounded to the nearest integer, ties to even (n >= 0, dn > 0)
RoundHalfEven[n \in Int, dn \in Int] ==
  IF 2 * (n % dn) > dn \/ (2 * (n % dn) = dn /\ (n \div dn) % 2 = 1)
  THEN (n \div dn) + 1
  ELSE n \div dn

\* a rounded mantissa that reached FlLimit carries into the exponent
FlCarry[m \in Int, e \in Int] ==
  IF m = FlLimit THEN << FlLimit \div 2, e + 1 >> ELSE << m, e >>

\* the float nearest to (n / dn) * 2^e, for n > 0 and dn > 0
FlRoundPos[n \in Int, dn \in Int, e \in Int] ==
  IF n \div dn >= FlLimit THEN FlRoundPos[n, 2 * dn, e + 1]
  ELSE IF 2 * (n \div dn) < FlLimit THEN FlRoundPos[2 * n, dn, e - 1]
  ELSE FlCarry[RoundHalfEven[n, dn], e]

FlNeg[x \in Int \X Int] == << -x[1], x[2] >>

\* the float nearest to (n / dn) * 2^e, for dn > 0
FlRound[n \in Int, dn \in Int, e \in Int] ==
  IF n = 0 THEN << 0, 0 >>
  ELSE IF n > 0 THEN FlRoundPos[n, dn, e]
  ELSE FlNeg[FlRoundPos[-n, dn, e]]

\* float(k) of an integer k
FlOfInt(k) == FlRound[k, 1, 0]

\* x * y
FlMul(x, y) == FlRound[x[1] * y[1], 1, x[2] + y[2]]

\* x / y, y # 0
FlDiv(x, y) ==
  IF y[1] > 0 THEN FlRound[x[1], y[1], x[2] - y[2]]
  ELSE FlRound[-x[1], -y[1], x[2] - y[2]]

\* an operand more than 12 binary places below the other one acts on the
\* rounding by its sign only
FlSticky[x \in Int \X Int, e \in Int] ==
  IF x[1] = 0 \/ x[2] >= e - 12 THEN x
  ELSE << (IF x[1] > 0 THEN 1 ELSE -1), e - 12 >>

FlMin[a \in Int, b \in Int] == IF a < b THEN a ELSE b

\* x - y for operands whose exponents are at most 12 apart
FlSubAligned[x \in Int \X Int, y \in Int \X Int, e \in Int] ==
  FlRound[x[1] * Pow2[x[2] - e] - y[1] * Pow2[y[2] - e], 1, e]

FlSubNonZero[x \in Int \X Int, y \in Int \X Int] ==
  FlSubAligned[FlSticky[x, y[2]], FlSticky[y, x[2]],
               FlMin[FlSticky[x, y[2]][2], FlSticky[y, x[2]][2]]]

\* x - y
FlSub(x, y) ==
  IF y[1] = 0 THEN x
  ELSE IF x[1] = 0 THEN FlNeg[y]
  ELSE FlSubNonZero[x, y]

\* x < y
FlLess(x, y) == FlSub(x, y)[1] < 0

\* m.floor(x), a Python int
FlFloor(x) ==
  IF x[2] >= 0 THEN x[1] * Pow2[x[2]]
  ELSE IF x[2] < -20 THEN (IF x[1] < 0 THEN -1 ELSE 0)
  ELSE x[1] \div Pow2[-x[2]]

\* 2.0, and m.pi rounded to the format: 201 / 64 = 3.140625
FlTwo == << 128, -6 >>
FlPi == << 201, -6 >>

\* mod_to_pi(angle) in floating point:
\* angle - 2.0 * m.pi * m.floor(angle / 2.0 / m.pi)
mod_to_pi_fl(angle) ==
  FlSub(angle,
        FlMul(FlMul(FlTwo, FlPi),
              FlOfInt(FlFloor(FlDiv(FlDiv(angle, FlTwo), FlPi)))))

\* Python's None (an object unequal to every tuple and list)
None == << >>
\* no exception
NoError == "none"
\* float("inf"): above every finite cost
Inf == 2147483647

\* the families in the order of the list `planners`, each as list(planner)
planners ==
  << <<"L", "S", "L">>, <<"R", "S", "R">>, <<"L", "S", "R">>,
     <<"R", "S", "L">>, <<"R", "L", "R">>, <<"L", "R", "L">> >>

\* str.upper and str.islower on one letter
Upper(ch) ==
  CASE ch = "l" -> "L" [] ch = "r" -> "R" [] ch = "s" -> "S" [] OTHER -> ch
IsLower(ch) == ch \in {"l", "r", "s"}

(***************************************************************************)
(* general_planner(planner, alpha, beta, d): the closed form of one        *)
(* family.  Each branch of the if-chain is a chain of functions, one per   *)
(* group of assignments, whose arguments are the locals assigned so far;   *)
(* each yields the list [t, p, q], or None where the branch returns None.  *)
(***************************************************************************)
\* LSL, lines 48-56
LSL_path[alpha \in Int, beta \in Int, p_squared \in Int, tmp1 \in Int] ==
  IF p_squared < 0 THEN None
  ELSE << mod_to_pi(-alpha + tmp1), Sqrt(p_squared), mod_to_pi(beta - tmp1) >>

LSL[alpha \in Int, beta \in Int, d \in Int, sa \in Int, sb \in Int, ca \in Int, cb \in Int, c_ab \in Int] ==
  LSL_path[alpha, beta,
           2 * Scale + MulFix(d, d) - 2 * c_ab + MulFix(2 * d, sa - sb),
           Atan2(cb - ca, d + sa - sb)]

\* RSR, lines 58-66
RSR_path[alpha \in Int, beta \in Int, p_squared \in Int, tmp1 \in Int] ==
  IF p_squared < 0 THEN None
  ELSE << mod_to_pi(alpha - tmp1), Sqrt(p_squared), mod_to_pi(-beta + tmp1) >>

RSR[alpha \in Int, beta \in Int, d \in Int, sa \in Int, sb \in Int, ca \in Int, cb \in Int, c_ab \in Int] ==
  RSR_path[alpha, beta,
           2 * Scale + MulFix(d, d) - 2 * c_ab + MulFix(2 * d, sb - sa),
           Atan2(ca - cb, d - sa + sb)]

\* LSR, lines 68-75
LSR_path[alpha \in Int, beta \in Int, p \in Int, tmp2 \in Int] ==
  << mod_to_pi(-alpha + tmp2), p, mod_to_pi(-mod_to_pi(beta) + tmp2) >>

LSR_tmp2[alpha \in Int, beta \in Int, d \in Int, sa \in Int, sb \in Int, ca \in Int, cb \in Int, p \in Int] ==
  LSR_path[alpha, beta, p,
           Atan2(-ca - cb, d + sa + sb) - Atan2(-2 * Scale, p)]

LSR_p[alpha \in Int, beta \in Int, d \in Int, sa \in Int, sb \in Int, ca \in Int, cb \in Int, p_squared \in Int] ==
  IF p_squared < 0 THEN None
  ELSE LSR_tmp2[alpha, beta, d, sa, sb, ca, cb, Sqrt(p_squared)]

LSR[alpha \in Int, beta \in Int, d \in Int, sa \in Int, sb \in Int, ca \in Int, cb \in Int, c_ab \in Int] ==
  LSR_p[alpha, beta, d, sa, sb, ca, cb,
        -2 * Scale + MulFix(d, d) + 2 * c_ab + MulFix(2 * d, sa + sb)]

\* RSL, lines 77-84
RSL_path[alpha \in Int, beta \in Int, p \in Int, tmp2 \in Int] ==
  << mod_to_pi(alpha - tmp2), p, mod_to_pi(beta - tmp2) >>

RSL_tmp2[alpha \in Int, beta \in Int, d \in Int, sa \in Int, sb \in Int, ca \in Int, cb \in Int, p \in Int] ==
  RSL_path[alpha, beta, p,
           Atan2(ca + cb, d - sa - sb) - Atan2(2 * Scale, p)]

RSL_p[alpha \in Int, beta \in Int, d \in Int, sa \in Int, sb \in Int, ca \in Int, cb \in Int, p_squared \in Int] ==
  IF p_squared < 0 THEN None
  ELSE RSL_tmp2[alpha, beta, d, sa, sb, ca, cb, Sqrt(p_squared)]

RSL[alpha \in Int, beta \in Int, d \in Int, sa \in Int, sb \in Int, ca \in Int, cb \in Int, c_ab \in Int] ==
  RSL_p[alpha, beta, d, sa, sb, ca, cb,
        MulFix(d, d) - 2 * Scale + 2 * c_ab - MulFix(2 * d, sa + sb)]

\* RLR, lines 86-93
RLR_q[alpha \in Int, beta \in Int, p \in Int, t \in Int] ==
  << t, p, mod_to_pi(alpha - beta - t + mod_to_pi(p)) >>

RLR_t[alpha \in Int, beta \in Int, d \in Int, sa \in Int, sb \in Int, ca \in Int, cb \in Int, p \in Int] ==
  RLR_q[alpha, beta, p,
        mod_to_pi(alpha - Atan2(ca - cb, d - sa + sb)
                  + mod_to_pi(RDiv(p, 2)))]

RLR_p[alpha \in Int, beta \in Int, d \in Int, sa \in Int, sb \in Int, ca \in Int, cb \in Int, tmp_rlr \in Int] ==
  IF Abs(tmp_rlr) > Scale THEN None
  ELSE RLR_t[alpha, beta, d, sa, sb, ca, cb,
             mod_to_pi(2 * PI - Acos(tmp_rlr))]

RLR[alpha \in Int, beta \in Int, d \in Int, sa \in Int, sb \in Int, ca \in Int, cb \in Int, c_ab \in Int] ==
  RLR_p[alpha, beta, d, sa, sb, ca, cb,
        RDiv(6 * Scale - MulFix(d, d) + 2 * c_ab + MulFix(2 * d, sa - sb),
             8)]

\* LRL, lines 95-101
LRL_q[alpha \in Int, beta \in Int, p \in Int, t \in Int] ==
  << t, p, mod_to_pi(mod_to_pi(beta) - alpha - t + mod_to_pi(p)) >>

LRL_t[alpha \in Int, beta \in Int, d \in Int, sa \in Int, sb \in Int, ca \in Int, cb \in Int, p \in Int] ==
  LRL_q[alpha, beta, p,
        mod_to_pi(-alpha - Atan2(ca - cb, d + sa - sb) + RDiv(p, 2))]

LRL_p[alpha \in Int, beta \in Int, d \in Int, sa \in Int, sb \in Int, ca \in Int, cb \in Int, tmp_lrl \in Int] ==
  IF Abs(tmp_lrl) > Scale THEN None
  ELSE LRL_t[alpha, beta, d, sa, sb, ca, cb,
             mod_to_pi(2 * PI - Acos(tmp_lrl))]

LRL[alpha \in Int, beta \in Int, d \in Int, sa \in Int, sb \in Int, ca \in Int, cb \in Int, c_ab \in Int] ==
  LRL_p[alpha, beta, d, sa, sb, ca, cb,
        RDiv(6 * Scale - MulFix(d, d) + 2 * c_ab + MulFix(2 * d, -sa + sb),
             8)]

\* lines 46-101: the if-chain on planner.upper(), given the five shared
\* intermediates of lines 39-43
FamilyBranch(planner_uc, alpha, beta, d, sa, sb, ca, cb, c_ab) ==
  CASE planner_uc = <<"L", "S", "L">> -> LSL[alpha, beta, d, sa, sb, ca, cb, c_ab]
    [] planner_uc = <<"R", "S", "R">> -> RSR[alpha, beta, d, sa, sb, ca, cb, c_ab]
    [] planner_uc = <<"L", "S", "R">> -> LSR[alpha, beta, d, sa, sb, ca, cb, c_ab]
    [] planner_uc = <<"R", "S", "L">> -> RSL[alpha, beta, d, sa, sb, ca, cb, c_ab]
    [] planner_uc = <<"R", "L", "R">> -> RLR[alpha, beta, d, sa, sb, ca, cb, c_ab]
    [] planner_uc = <<"L", "R", "L">> -> LRL[alpha, beta, d, sa, sb, ca, cb, c_ab]

\* lines 39-101: [t, p, q] of the family, or None
FamilyPath(planner, alpha, beta, d) ==
  FamilyBranch([k \in 1..3 |-> Upper(planner[k])], alpha, beta, d,
               Sin(alpha), Sin(beta), Cos(alpha), Cos(beta),
               Cos(alpha - beta))

\* lines 108-110: the lower-case reflection of the first and third measure
Reflect(planner, path) ==
  [k \in 1..3 |->
     IF k \in {1, 3} /\ IsLower(planner[k]) THEN 2 * PI - path[k]
                                            ELSE path[k]]

\* line 112: sum(map(abs, path))
PathCost(path) == Abs(path[1]) + Abs(path[2]) + Abs(path[3])

\* lines 106-114, given the [t, p, q] of the branch
PlannerResult(planner, tpq) ==
  IF tpq = None THEN None
  ELSE << Reflect(planner, tpq), planner, PathCost(Reflect(planner, tpq)) >>

\* general_planner(planner, alpha, beta, d): None or (path, mode, cost)
general_planner(planner, alpha, beta, d) ==
  PlannerResult(planner, FamilyPath(planner, alpha, beta, d))

(***************************************************************************)
(* State of one call dubins_path(xs, start, end).                          *)
(***************************************************************************)
VARIABLES
  start,     \* (sx, sy, syaw): position, heading in degrees
  end,       \* (ex, ey, eyaw)
  c,         \* xs.radius
  pc,        \* "call", "normalized", "select", "returned" or "raised"
  lex, ley, leyaw, D, d,   \* locals of the normalization
  alpha, beta,
  i,         \* index into planners of the next family of the for loop
  solution,  \* what general_planner returned in the last iteration
  solutions, \* what it returned in each iteration so far, in order
  bt, bp, bq, bmode, bcost,
  result,    \* the returned list, None until the call returns
  raised,    \* the exception that ended the call, NoError if none
  stdout,    \* what the call has printed
  fl_angle,  \* a call of mod_to_pi in floating point: its argument
  fl_results, \* what mod_to_pi returned, applied again to each result
  gsolution,  \* a call of gds_solution: its argument `solution`
  gpc,        \* "idle", "call", "loop", "returned" or "raised"
  gindex,     \* index into gsolution of the next segment of the for loop
  component,  \* the references added to the Component c, in order
  current_position,  \* the port the next segment connects to
  graised,    \* the exception that ended the call, NoError if none
  greturned   \* the returned Component, None until the call returns

planner_vars ==
  << start, end, c, pc, lex, ley, leyaw, D, d, alpha, beta, i,
     solution, solutions, bt, bp, bq, bmode, bcost, result, raised, stdout >>
fl_vars == << fl_angle, fl_results >>
gds_vars ==
  << gsolution, gpc, gindex, component, current_position, graised,
     greturned >>
helper_vars == << fl_vars, gds_vars >>
vars == << planner_vars, helper_vars >>

\* no call of mod_to_pi on its own
FlIdle == fl_angle = None /\ fl_results = << >>

\* no call of gds_solution
GdsIdle ==
  /\ gsolution = None
  /\ gpc = "idle"
  /\ gindex = 0
  /\ component = None
  /\ current_position = None
  /\ graised = NoError
  /\ greturned = None

Coords == {k * Scale : k \in -MaxCoord..MaxCoord}
Headings == {(360 * k) \div NumHeadings : k \in 0..(NumHeadings - 1)}
              \cup {0, 90, 180}
Radii == {k * Scale : k \in -1..MaxRadius}
\* the end positions: the grid, the far point, and for each positive radius
\* r the point (0, 2 r) opposite the start of a half circle
EndPositions ==
  (Coords \X Coords) \cup {<<FarCoord * Scale, 0>>}
    \cup {<<0, 2 * r>> : r \in {x \in Radii : x > 0}}

Init ==
  /\ start \in {<<0, 0>>} \X Headings
  /\ end \in EndPositions \X Headings
  /\ c \in Radii
  /\ pc = "call"
  /\ lex = None /\ ley = None /\ leyaw = None /\ D = None /\ d = None
  /\ alpha = None /\ beta = None
  /\ i = 0
  /\ solution = None
  /\ solutions = << >>
  /\ bt = None /\ bp = None /\ bq = None /\ bmode = None /\ bcost = None
  /\ result = None
  /\ raised = NoError
  /\ stdout = << >>
  /\ FlIdle
  /\ GdsIdle

\* the sine and the cosine of the rotation exchanged
LocalXSwapped(s, e) ==
  MulFix(Sin(Radians(s[2])), e[1][1] - s[1][1])
    + MulFix(Cos(Radians(s[2])), e[1][2] - s[1][2])

\* lines 143-155: the end point in the frame of the start
LocalX(s, e) ==
  MulFix(Cos(Radians(s[2])), e[1][1] - s[1][1])
    + MulFix(Sin(Radians(s[2])), e[1][2] - s[1][2])
LocalY(s, e) ==
  MulFix(-Sin(Radians(s[2])), e[1][1] - s[1][1])
    + MulFix(Cos(Radians(s[2])), e[1][2] - s[1][2])
LocalYaw(s, e) == Radians(e[2]) - Radians(s[2])

\* line 159: m.sqrt(lex**2.0 + ley**2.0)
Distance(lx, ly) == Sqrt(MulFix(lx, lx) + MulFix(ly, ly))

\* lines 139-160: the normalization up to d = D / c, which divides by zero
\* when the radius is 0
Normalize ==
  /\ pc = "call"
  /\ lex' = LocalX(start, end)
  /\ ley' = LocalY(start, end)
  /\ leyaw' = LocalYaw(start, end)
  /\ D' = Distance(lex', ley')
  /\ IF c = 0
     THEN /\ raised' = "ZeroDivisionError"
          /\ pc' = "raised"
          /\ d' = d
     ELSE /\ d' = DivFix(D', c)
          /\ pc' = "normalized"
          /\ raised' = raised
  /\ UNCHANGED << start, end, c, alpha, beta, i, solution, solutions, bt,
                  bp, bq, bmode, bcost, result, stdout >>
  /\ UNCHANGED helper_vars

\* m.atan2(ley, lex) at line 165.  With both arguments zero the result is
\* decided by the signs of the two floating point zeros: 0, -0, pi or -pi.
Atan2Outcomes(y, x) ==
  IF y = 0 /\ x = 0 THEN {0, PI, -PI} ELSE {Atan2(y, x)}

\* lines 162-172: print D, the angles of the normalized problem, and the
\* initial values of the selector
Angles ==
  /\ pc = "normalized"
  /\ stdout' = Append(stdout, <<"D (um):", D>>)
  /\ \E theta \in {mod_to_pi(a) : a \in Atan2Outcomes(ley, lex)} :
       /\ alpha' = mod_to_pi(-theta)
       /\ beta' = mod_to_pi(leyaw - theta)
  /\ bcost' = Inf
  /\ bt' = None /\ bp' = None /\ bq' = None /\ bmode' = None
  /\ i' = 1
  /\ pc' = "select"
  /\ UNCHANGED << start, end, c, lex, ley, leyaw, D, d, solution,
                  solutions, result, raised >>
  /\ UNCHANGED helper_vars

\* every feasible family replaces the best
ImprovesAlways(best, cost) == TRUE

\* a family of equal cost replaces the best
ImprovesOrEqual(best, cost) == best >= cost

\* the comparison the wrong way round
ImprovesReversed(best, cost) == best < cost

\* bcost > cost at line 180
Improves(best, cost) == best > cost

\* lines 174-182: one iteration of the for loop
Iterate ==
  /\ pc = "select"
  /\ i <= Len(planners)
  /\ solution' = general_planner(planners[i], alpha, beta, d)
  /\ solutions' = Append(solutions, solution')
  /\ IF solution' # None /\ Improves(bcost, solution'[3])
     THEN /\ bt' = solution'[1][1]
          /\ bp' = solution'[1][2]
          /\ bq' = solution'[1][3]
          /\ bmode' = solution'[2]
          /\ bcost' = solution'[3]
     ELSE UNCHANGED << bt, bp, bq, bmode, bcost >>
  /\ i' = i + 1
  /\ UNCHANGED << start, end, c, pc, lex, ley, leyaw, D, d, alpha, beta,
                  result, raised, stdout >>
  /\ UNCHANGED helper_vars

\* the measures returned without the factor c
MaterializeUnscaled(mode, t, p, q, radius) ==
  [k \in 1..3 |-> << mode[k], << t, p, q >>[k], radius >>]

\* list(zip(bmode, [bt * c, bp * c, bq * c], [c] * 3)) at line 186
Materialize(mode, t, p, q, radius) ==
  [k \in 1..3 |->
     << mode[k],
        << MulFix(t, radius), MulFix(p, radius), MulFix(q, radius) >>[k],
        radius >>]

\* lines 184-186: print the best mode and return the three segments; with
\* no family selected, bt * c fails on None
Finish ==
  /\ pc = "select"
  /\ i > Len(planners)
  /\ stdout' = Append(stdout, <<"Best mode:", bmode>>)
  /\ IF bmode = None
     THEN /\ raised' = "TypeError"
          /\ pc' = "raised"
          /\ result' = result
     ELSE /\ result' = Materialize(bmode, bt, bp, bq, c)
          /\ pc' = "returned"
          /\ raised' = raised
  /\ UNCHANGED << start, end, c, lex, ley, leyaw, D, d, alpha, beta, i,
                  solution, solutions, bt, bp, bq, bmode, bcost >>
  /\ UNCHANGED helper_vars

Next == Normalize \/ Angles \/ Iterate \/ Finish

Spec == Init /\ [][Next]_vars

(***************************************************************************)
(* mod_to_pi called on its own, in floating point, and called again on     *)
(* what it returned.                                                       *)
(***************************************************************************)
\* no call of dubins_path
PlannerIdle ==
  /\ start = None /\ end = None /\ c = None
  /\ pc = "idle"
  /\ lex = None /\ ley = None /\ leyaw = None /\ D = None /\ d = None
  /\ alpha = None /\ beta = None
  /\ i = 0
  /\ solution = None
  /\ solutions = << >>
  /\ bt = None /\ bp = None /\ bq = None /\ bmode = None /\ bcost = None
  /\ result = None
  /\ raised = NoError
  /\ stdout = << >>

\* the arguments: 0 and every float m * 2^e with -MaxFlExp <= e <= 0, that
\* is the floats from 0.002 to 255, negative and positive
FlAngles ==
  {<< 0, 0 >>}
    \cup {<< sign * m, -k >> : sign \in {-1, 1},
                              m \in (FlLimit \div 2)..(FlLimit - 1),
                              k \in 0..MaxFlExp}

InitModToPi ==
  /\ PlannerIdle
  /\ GdsIdle
  /\ fl_angle \in FlAngles
  /\ fl_results = << >>

\* lines 194-196, on the argument and then on the value returned
ApplyModToPi ==
  /\ fl_angle # None
  /\ Len(fl_results) < 2
  /\ fl_results' =
       Append(fl_results,
              mod_to_pi_fl(IF fl_results = << >> THEN fl_angle
                                               ELSE fl_results[1]))
  /\ UNCHANGED << planner_vars, fl_angle, gds_vars >>

NextModToPi == ApplyModToPi

SpecModToPi == InitModToPi /\ [][NextModToPi]_vars

(***************************************************************************)
(* gds_solution(xs, port1, port2, solution).  A port is <<0, "port1">>,    *)
(* the start port, or <<k, "o1">> or <<k, "o2">>, a port of the k-th       *)
(* reference added to the component.  A reference is the tuple of the      *)
(* component function called, its argument, and the destination its port   *)
(* o1 was connected to.                                                    *)
(***************************************************************************)
Port1 == << 0, "port1" >>

\* the segments (mode, length, radius) of the solutions: the three kinds,
\* a lower-case kind, two lengths, and one radius for the whole solution
GdsModes == {"L", "R", "S", "l"}
GdsLengths == {HalfPi, 2 * Scale}
GdsRadii == {0, Scale, 2 * Scale}
GdsSolutions ==
  UNION {[1..n -> GdsModes \X GdsLengths \X {r}] :
           n \in 0..MaxSegments, r \in GdsRadii}

InitGds ==
  /\ PlannerIdle
  /\ FlIdle
  /\ gsolution \in GdsSolutions
  /\ gpc = "call"
  /\ gindex = 0
  /\ component = None
  /\ current_position = None
  /\ graised = NoError
  /\ greturned = None

\* lines 236-239: the empty component; the fold starts at port1
GdsCreate ==
  /\ gpc = "call"
  /\ component' = << >>
  /\ current_position' = Port1
  /\ gindex' = 1
  /\ gpc' = "loop"
  /\ UNCHANGED << planner_vars, fl_vars, gsolution, graised, greturned >>

\* 180 * length / (m.pi * radius) at lines 244 and 250
ArcDegrees(length, radius) == DivFix(180 * length, MulFix(PI, radius))

\* the R bend turning the same way as the L bend
ArcAngleUnsigned(mode, length, radius) == ArcDegrees(length, radius)

\* arc_angle at lines 244 and 250: negated for R
ArcAngle(mode, length, radius) ==
  IF mode = "R" THEN -ArcDegrees(length, radius)
                ELSE ArcDegrees(length, radius)

\* lines 245-246, 251-252, 256-257: c << the bend or straight, with o1
\* connected to the destination
Reference(mode, length, radius, destination) ==
  IF mode = "S" THEN << "straight", length, destination >>
  ELSE << "bend_circular", ArcAngle(mode, length, radius), destination >>

\* lines 241-261: one iteration of the for loop
GdsPlace ==
  /\ gpc = "loop"
  /\ gindex <= Len(gsolution)
  /\ IF gsolution[gindex][1] \notin {"L", "R", "S"}
     THEN /\ graised' = "ValueError"
          /\ gpc' = "raised"
          /\ UNCHANGED << component, current_position, gindex >>
     ELSE IF gsolution[gindex][1] \in {"L", "R"}
             /\ MulFix(PI, gsolution[gindex][3]) = 0
     THEN /\ graised' = "ZeroDivisionError"
          /\ gpc' = "raised"
          /\ UNCHANGED << component, current_position, gindex >>
     ELSE /\ component' =
               Append(component,
                      Reference(gsolution[gindex][1], gsolution[gindex][2],
                                gsolution[gindex][3], current_position))
          /\ current_position' = << gindex, "o2" >>
          /\ gindex' = gindex + 1
          /\ UNCHANGED << gpc, graised >>
  /\ UNCHANGED << planner_vars, fl_vars, gsolution, greturned >>

\* line 263: return c
GdsReturn ==
  /\ gpc = "loop"
  /\ gindex > Len(gsolution)
  /\ greturned' = component
  /\ gpc' = "returned"
  /\ UNCHANGED << planner_vars, fl_vars, gsolution, gindex, component,
                  current_position, graised >>

NextGds == GdsCreate \/ GdsPlace \/ GdsReturn

SpecGds == InitGds /\ [][NextGds]_vars

(***************************************************************************)
(* Properties.  solutions[k] is what general_planner returned for the k-th *)
(* family of `planners` on the normalized problem of the call, for every   *)
(* family the loop has evaluated.                                          *)
(***************************************************************************)
Evaluated == 1..Len(solutions)
Feasible(k) == solutions[k] # None
CostOf(k) == solutions[k][3]
Origin == << <<0, 0>>, 0 >>
TotalLength(segments) == segments[1][2] + segments[2][2] + segments[3][2]

\* the order of evaluation that the specification states
FamilyOrder ==
  << <<"L", "S", "L">>, <<"R", "S", "R">>, <<"L", "S", "R">>,
     <<"R", "S", "L">>, <<"R", "L", "R">>, <<"L", "R", "L">> >>

\* C1: the families are evaluated in the order LSL, RSR, LSR, RSL, RLR, LRL
\* and the best is replaced only by a strictly smaller cost: after any
\* number of iterations, with a feasible family among those evaluated, the
\* best family is the first, in that order, of the evaluated families that
\* have the least cost; so the family reported is the first of those that
\* share the minimum, and a later family of equal cost has not replaced it.
C1_FirstMinimumWins ==
  /\ \A k \in Evaluated : Feasible(k) => solutions[k][2] = FamilyOrder[k]
  /\ (\E k \in Evaluated : Feasible(k)) =>
       \E k \in Evaluated :
         /\ bmode = FamilyOrder[k]
         /\ Feasible(k)
         /\ CostOf(k) = bcost
         /\ \A j \in Evaluated :
              Feasible(j) =>
                /\ CostOf(j) >= bcost
                /\ (j < k => CostOf(j) > bcost)

\* C1 happens: a call has returned a family although a later family of the
\* order is feasible with the same cost
C1_Witness ==
  /\ pc = "returned"
  /\ \E k \in Evaluated : \E j \in Evaluated :
       /\ k < j
       /\ bmode = planners[k]
       /\ Feasible(j)
       /\ CostOf(j) = bcost

\* C2: when the loop over the families has ended and at least one family is
\* feasible, a family has been selected and its cost t + p + q is no larger
\* than the cost of any feasible family.
C2_SelectedIsMinimal ==
  (Len(solutions) = Len(planners) /\ \E k \in Evaluated : Feasible(k)) =>
    /\ bmode # None
    /\ \A k \in Evaluated : Feasible(k) => bt + bp + bq <= CostOf(k)

\* C2 happens: a call has returned a family other than the first one, and
\* another feasible family costs strictly more
C2_Witness ==
  /\ pc = "returned"
  /\ bmode # planners[1]
  /\ \E k \in Evaluated : Feasible(k) /\ CostOf(k) > bt + bp + bq

\* C4: a zero or negative radius is rejected with an InvalidRadiusError
\* before any normalization or family evaluation: with such a radius the
\* call never leaves its entry except by raising that error.
C4_InvalidRadiusRejected ==
  c <= 0 => (pc = "call" \/ (pc = "raised" /\ raised = "InvalidRadiusError"))

\* C5: a returned result has exactly three segments; the k-th carries the
\* k-th letter (upper case) of the selected family, the k-th measure of
\* that family multiplied by the radius, and the radius.  No result with
\* another number of segments exists.
C5_ThreeSegments ==
  /\ result # None => Len(result) = 3
  /\ pc = "returned" =>
       /\ result # None
       /\ \E k \in Evaluated :
            /\ bmode = FamilyOrder[k]
            /\ Feasible(k)
            /\ \A m \in 1..3 :
                 /\ result[m][1] \in {"L", "S", "R"}
                 /\ result[m] =
                      << bmode[m], MulFix(solutions[k][1][m], c), c >>

\* C5 happens: a call with radius 2 has returned three segments of
\* positive length
C5_Witness ==
  /\ pc = "returned"
  /\ c = 2 * Scale
  /\ \A k \in 1..3 : result[k][2] > 0

\* C6: for alpha and beta in [0, 2 pi) and d >= 0, every family that is
\* feasible has t >= 0, p >= 0 and q >= 0, and its cost is t + p + q.
C6_MeasuresNonNegative ==
  (/\ solutions # << >>
   /\ d >= 0
   /\ alpha \in 0..(TwoPi - 1)
   /\ beta \in 0..(TwoPi - 1)) =>
    \A k \in Evaluated :
      Feasible(k) =>
        /\ \A m \in 1..3 : solutions[k][1][m] >= 0
        /\ CostOf(k) = solutions[k][1][1] + solutions[k][1][2]
                         + solutions[k][1][3]

\* C6 happens: general_planner has just returned a solution whose three
\* measures are all positive, for d > 0
C6_Witness ==
  /\ pc = "select"
  /\ d > 0
  /\ solution # None
  /\ \A m \in 1..3 : solution[1][m] > 0

\* C7: the planner prints nothing: the standard output of the call stays
\* empty.
C7_NoOutput == stdout = << >>

\* C8: from (0, 0, 0 deg) to (D, 0, 0 deg) with a positive radius and D at
\* least the radius, the returned family has a straight segment, both
\* turns have length 0, and the straight segment and the total have length
\* D: exactly when the radius divides D, and otherwise to within the
\* rounding of d = D / c, which is at most c / Scale.
C8_StraightLine ==
  (/\ pc = "returned"
   /\ c > 0
   /\ start = Origin
   /\ end[1][1] >= c /\ end[1][2] = 0 /\ end[2] = 0) =>
    /\ result[2][1] = "S"
    /\ result[1][2] = 0
    /\ result[3][2] = 0
    /\ Abs(result[2][2] - end[1][1]) * Scale <= c
    /\ Abs(TotalLength(result) - end[1][1]) * Scale <= c
    /\ (end[1][1] % c = 0 =>
          result[2][2] = end[1][1] /\ TotalLength(result) = end[1][1])

\* C8 happens: the call from (0, 0, 0 deg) to (FarCoord, 0, 0 deg) with
\* radius 1 has returned a straight segment of length FarCoord
C8_Witness ==
  /\ pc = "returned"
  /\ c = Scale
  /\ start = Origin
  /\ end = << <<FarCoord * Scale, 0>>, 0 >>
  /\ result[2] = << "S", FarCoord * Scale, c >>

\* C9: from (0, 0, 0 deg) to (0, 2 r, 180 deg) with radius r > 0, the
\* middle segment of the returned path has length 0, the first and third
\* segments turn the same way, and the total length is pi r.
C9_UTurn ==
  (/\ pc = "returned"
   /\ c > 0
   /\ start = Origin
   /\ end = << <<0, 2 * c>>, 180 >>) =>
    /\ result[2][2] = 0
    /\ result[1][1] \in {"L", "R"}
    /\ result[1][1] = result[3][1]
    /\ TotalLength(result) = MulFix(PI, c)

\* C9 happens: the half circle of radius 2 has been returned, with a
\* first segment of positive length
C9_Witness ==
  /\ pc = "returned"
  /\ c = 2 * Scale
  /\ start = Origin
  /\ end = << <<0, 2 * c>>, 180 >>
  /\ result[1][2] > 0

\* C10: when the end equals the start, position and heading, and the
\* radius is positive, the call does not fail and the path it returns has
\* three segments of length 0.
C10_SamePose ==
  (end = start /\ c > 0) =>
    /\ pc # "raised"
    /\ raised = NoError
    /\ pc = "returned" =>
         /\ Len(result) = 3
         /\ \A k \in 1..3 : result[k][2] = 0

\* C10 happens: a call whose end is its start, at a heading other than 0,
\* has returned, for each of the values atan2 can take on two zeros
C10_Witness ==
  /\ pc = "returned"
  /\ end = start
  /\ start[2] # 0
  /\ c > 0
  /\ alpha = PI
  /\ TotalLength(result) = 0

\* 2.0 * m.pi
FlTwoPi == FlMul(FlTwo, FlPi)

\* C11: for every argument, negative, zero or larger than 2 pi, mod_to_pi
\* returns a value r with 0 <= r < 2 pi, and applying it to r returns r.
C11_ReducedOnce ==
  /\ \A k \in 1..Len(fl_results) :
       /\ ~FlLess(fl_results[k], << 0, 0 >>)
       /\ FlLess(fl_results[k], FlTwoPi)
  /\ Len(fl_results) = 2 => fl_results[2] = fl_results[1]

\* C12: gds_solution places the segments in order: the o1 of the first
\* reference is connected to port1 and the o1 of each later reference to
\* the o2 of the reference placed just before it; an L segment is a bend
\* of 180 * length / (pi * radius) degrees (to within the rounding of the
\* quotient), an R segment a bend of the negated angle, an S segment a
\* straight of the given length; a segment of any other kind raises
\* ValueError, and only such a segment does.
C12_PlacementIsFold ==
  (gpc \in {"loop", "returned", "raised"}) =>
    /\ Len(component) = gindex - 1
    /\ \A k \in 1..Len(component) :
         /\ component[k][3] = (IF k = 1 THEN Port1 ELSE << k - 1, "o2" >>)
         /\ gsolution[k][1] \in {"L", "R", "S"}
         /\ gsolution[k][1] = "S" =>
              /\ component[k][1] = "straight"
              /\ component[k][2] = gsolution[k][2]
         /\ gsolution[k][1] \in {"L", "R"} =>
              /\ component[k][1] = "bend_circular"
              /\ Abs(MulFix((IF gsolution[k][1] = "L" THEN component[k][2]
                                                     ELSE -component[k][2]),
                             MulFix(PI, gsolution[k][3]))
                      - 180 * gsolution[k][2])
                   <= (MulFix(PI, gsolution[k][3]) \div Scale) + 1
    /\ graised = "ValueError" =>
         gsolution[gindex][1] \notin {"L", "R", "S"}
    /\ (gpc = "raised" /\ gsolution[gindex][1] \notin {"L", "R", "S"}) =>
         graised = "ValueError"
    /\ gpc = "returned" =>
         greturned = component /\ Len(component) = Len(gsolution)

\* C12 happens: a call has returned a component of three references, an L
\* bend, a straight and an R bend, in a chain from port1
C12_Witness ==
  /\ gpc = "returned"
  /\ Len(greturned) = 3
  /\ gsolution[1][1] = "L" /\ gsolution[2][1] = "S" /\ gsolution[3][1] = "R"
  /\ greturned[1][2] > 0 /\ greturned[3][2] < 0
  /\ greturned[3][3] = << 2, "o2" >>

\* the selector between two iterations of the loop, or after the last one
InSelector == pc \in {"select", "returned"}

\* bcost is the least cost of the feasible families processed so far,
\* infinity if there is none, and bmode is unset exactly when bcost is
\* infinity
SelectorInvariant ==
  InSelector =>
    /\ \A k \in Evaluated : Feasible(k) => bcost <= CostOf(k)
    /\ IF \E k \in Evaluated : Feasible(k)
       THEN \E k \in Evaluated : Feasible(k) /\ CostOf(k) = bcost
       ELSE bcost = Inf
    /\ (bmode = None) <=> (bcost = Inf)

\* one iteration does not increase bcost and, when general_planner returned
\* None, leaves bt, bp, bq, bmode and bcost as they were
SelectorStep ==
  (pc = "select" /\ pc' = "select") =>
    /\ Len(solutions') = Len(solutions) + 1
    /\ bcost' <= bcost
    /\ solution' = None => UNCHANGED << bt, bp, bq, bmode, bcost >>

\* C13: loop invariant of the selector in dubins_path: after each family
\* processed, bcost is the minimum cost of the feasible families processed
\* so far (infinity if none) and bmode is unset exactly when bcost is
\* infinity; from one iteration to the next bcost never increases, and an
\* infeasible family leaves bt, bp, bq, bmode and bcost unchanged.
C13_SelectorLoopInvariant == []SelectorInvariant /\ [][SelectorStep]_vars

\* C13 happens: an infeasible family has just been processed after a best
\* family had been found
C13_Witness ==
  /\ pc = "select"
  /\ Len(solutions) >= 2
  /\ solution = None
  /\ bmode # None
  /\ bcost < Inf

====
